---- MODULE Spec2Model ----
(***************************************************************************)
(* State-machine model of the API usage limiter (api_limits.py), the       *)
(* credentials manager (api_credentials.py) and the credential loader      *)
(* (utils.py) of the crowd-counting application.                           *)
(*                                                                         *)
(* Each Streamlit session owns an APILimiter instance with its own         *)
(* in-memory usage_data and its own st.session_state.user_api_calls; all   *)
(* instances share one storage file.                                       *)
(***************************************************************************)
EXTENDS Integers, FiniteSets, Sequences, TLC

\* ------------------------------------------------------------------ bounds
MaxDay == 2             \* last calendar day the clock reaches (it starts on day 1)
MaxCalls == 4           \* cap on every call counter
daily_user_limit == 2   \* the constructor's daily_user_limit
daily_total_limit == 3  \* the constructor's daily_total_limit

Sessions == {"A", "B"}

\* ------------------------------------------------------------- variables
VARIABLES
  now,                \* datetime.now(): the day and the time of day
  file,               \* the storage file at storage_path
  readable, writable, \* whether open(storage_path, 'r' / 'w') succeeds
  constructed,        \* constructed[s]: session s holds an APILimiter
  usage_data,         \* usage_data[s]: self.usage_data of s's limiter
  user_api_calls,     \* st.session_state.user_api_calls of each session
  result,             \* the last operation, its session and its outcome
  pending,            \* day of s's last allowing check not yet recorded
  accepted,           \* accepted[d]: calls recorded after an allowing check of day d
  recorded,           \* Record calls of today made on a record dated today
  rolled,             \* rolled[s]: s's limiter has performed today's rollover
  carried,            \* carried[s]: s's counter holds calls of an earlier day
  using_own_credentials, \* st.session_state.using_own_credentials
  user_credentials,   \* st.session_state.user_credentials
  cred_ret,           \* the credentials manager's last call and what it returned
  cred_prev,          \* the call before it
  environ,            \* os.environ
  credentials_loaded, \* 'credentials_loaded' in st.session_state
  dotenv_files,       \* the .env file at each of the possible paths
  secrets,            \* st.secrets
  load_ret,           \* what the last load_credentials / check_credentials did
  loaded_once         \* a load_credentials call of this session has returned

limiterVars == <<now, file, readable, writable, constructed, usage_data,
                 user_api_calls, result, pending, accepted, recorded, rolled,
                 carried>>

credVars == <<using_own_credentials, user_credentials, cred_ret, cred_prev>>
loaderVars == <<credentials_loaded, dotenv_files, secrets, load_ret, loaded_once>>

vars == <<limiterVars, credVars, environ, loaderVars>>

\* ------------------------------------------------------------ data model
\* 'user_api_calls' not in st.session_state
NoKey == -1
\* no allowing check is pending: a day the clock never reaches
NoDay == MaxDay + 1

\* datetime.now().strftime('%Y-%m-%d') keeps the day and drops the time
DateOf(t) == t.day
today == DateOf(now)
Days == 0..MaxDay

\* A dict read from or written to the file: a function on a set of keys.
EmptyDict == [k \in {} |-> 0]
DateOnly(d) == [k \in {"date"} |-> d]
Record(d, n) == [date |-> d, total_calls |-> n]
HasKey(u, k) == k \in DOMAIN u

\* {'date': datetime.now().strftime('%Y-%m-%d'), 'total_calls': 0}
FreshRecord == Record(today, 0)

Missing == [st |-> "missing", data |-> EmptyDict]
Garbage == [st |-> "garbage", data |-> EmptyDict]
Json(u) == [st |-> "json", data |-> u]

\* Parseable JSON objects that are not a usage record of a day with a
\* non-negative count.
MalformedDicts == {EmptyDict} \cup {DateOnly(d) : d \in Days}
                    \cup {Record(d, -1) : d \in Days}

FileContents == {Missing, Garbage} \cup {Json(u) : u \in MalformedDicts}

\* ---------------------------------------------------- APILimiter helpers
\* _load_usage_data: the record the constructor keeps in self.usage_data
LoadUsageData ==
  IF file.st = "missing" THEN FreshRecord
  ELSE IF ~readable \/ file.st = "garbage" THEN FreshRecord
  ELSE file.data

\* a save that writes nothing
SaveUsageDataSkipped(u) == file

\* _save_usage_data: the file after json.dump(self.usage_data, f)
SaveUsageData(u) == IF writable THEN Json(u) ELSE file

\* _reset_if_new_day: self.usage_data['date'] raises KeyError without the key
ResetRaises(u) == ~HasKey(u, "date")
ResetAlways(u) == TRUE
ResetNeeded(u) == u.date # today
ResetRecordKept(u) == u
ResetRecord(u) == IF ResetNeeded(u) THEN FreshRecord ELSE u
ResetCallsKept(u, c) == c
ResetCalls(u, c) == IF ResetNeeded(u) THEN 0 ELSE c
ResetFile(u) == IF ResetNeeded(u) THEN SaveUsageData(FreshRecord) ELSE file

\* the total limit compared with > in place of >=
CheckOutcomeStrict(c, u) ==
  IF c >= daily_user_limit THEN "user_limit"
  ELSE IF ~HasKey(u, "total_calls") THEN "raised"
  ELSE IF u.total_calls > daily_total_limit THEN "total_limit"
  ELSE "allowed"

\* the total limit checked before the user limit
CheckOutcomeTotalFirst(c, u) ==
  IF ~HasKey(u, "total_calls") THEN "raised"
  ELSE IF u.total_calls >= daily_total_limit THEN "total_limit"
  ELSE IF c >= daily_user_limit THEN "user_limit"
  ELSE "allowed"

\* the user limit compared with > in place of >=
CheckOutcomeUserStrict(c, u) ==
  IF c > daily_user_limit THEN "user_limit"
  ELSE IF ~HasKey(u, "total_calls") THEN "raised"
  ELSE IF u.total_calls >= daily_total_limit THEN "total_limit"
  ELSE "allowed"

\* check_limits after the rollover: the user limit first, then the total
CheckOutcome(c, u) ==
  IF c >= daily_user_limit THEN "user_limit"
  ELSE IF ~HasKey(u, "total_calls") THEN "raised"
  ELSE IF u.total_calls >= daily_total_limit THEN "total_limit"
  ELSE "allowed"

IncrementRecordSkipped(u) == u

\* an increment that validates the total limit again
IncrementRecordCapped(u) ==
  IF u.total_calls >= daily_total_limit THEN u
  ELSE [u EXCEPT !.total_calls = @ + 1]

\* increment_usage: self.usage_data['total_calls'] += 1
IncrementRaises(u) == ~HasKey(u, "total_calls")
IncrementRecord(u) == [u EXCEPT !.total_calls = @ + 1]

Outcome(op, s, out) == [op |-> op, s |-> s, out |-> out]

\* --------------------------------------------------------------- actions
\* APILimiter(...): load the record, create the session counter if absent
Construct(s) ==
  /\ constructed' = [constructed EXCEPT ![s] = TRUE]
  /\ usage_data' = [usage_data EXCEPT ![s] = LoadUsageData]
  /\ user_api_calls' = [user_api_calls EXCEPT ![s] = IF @ = NoKey THEN 0 ELSE @]
  /\ result' = Outcome("construct", s, "ok")
  /\ pending' = [pending EXCEPT ![s] = NoDay]
  /\ rolled' = [rolled EXCEPT ![s] = FALSE]
  /\ UNCHANGED <<now, file, readable, writable, recorded, carried>>

\* check_limits
CheckLimits(s) ==
  /\ constructed[s]
  /\ LET u == usage_data[s] IN
     IF ResetRaises(u)
     THEN /\ result' = Outcome("check", s, "raised")
          /\ pending' = [pending EXCEPT ![s] = NoDay]
          /\ UNCHANGED <<usage_data, user_api_calls, file, rolled, carried>>
     ELSE LET u2 == ResetRecord(u)
              c2 == ResetCalls(u, user_api_calls[s])
              out == CheckOutcome(c2, u2)
          IN /\ usage_data' = [usage_data EXCEPT ![s] = u2]
             /\ user_api_calls' = [user_api_calls EXCEPT ![s] = c2]
             /\ file' = ResetFile(u)
             /\ result' = Outcome("check", s, out)
             /\ pending' = [pending EXCEPT ![s] = IF out = "allowed" THEN today ELSE NoDay]
             /\ rolled' = [rolled EXCEPT ![s] = @ \/ ResetNeeded(u)]
             /\ carried' = [carried EXCEPT ![s] = @ /\ ~ResetNeeded(u)]
  /\ UNCHANGED <<now, readable, writable, constructed, recorded>>

\* increment_usage
IncrementUsage(s) ==
  /\ constructed[s]
  /\ user_api_calls[s] < MaxCalls
  /\ recorded < MaxCalls
  /\ LET u == usage_data[s] IN
     /\ HasKey(u, "total_calls") => u.total_calls < MaxCalls
     /\ user_api_calls' = [user_api_calls EXCEPT ![s] = @ + 1]
     /\ IF IncrementRaises(u)
        THEN /\ result' = Outcome("record", s, "raised")
             /\ UNCHANGED <<usage_data, file, recorded>>
        ELSE /\ usage_data' = [usage_data EXCEPT ![s] = IncrementRecord(u)]
             /\ file' = SaveUsageData(IncrementRecord(u))
             /\ result' = Outcome("record", s, "ok")
             /\ recorded' = IF HasKey(u, "date") /\ u.date = today
                            THEN recorded + 1 ELSE recorded
  /\ pending' = [pending EXCEPT ![s] = NoDay]
  /\ UNCHANGED <<now, readable, writable, constructed, rolled, carried>>

\* display_usage_stats
DisplayUsageStats(s) ==
  /\ constructed[s]
  /\ LET u == usage_data[s] IN
     IF ResetRaises(u)
     THEN /\ result' = Outcome("stats", s, "raised")
          /\ UNCHANGED <<usage_data, user_api_calls, file, rolled, carried>>
     ELSE LET u2 == ResetRecord(u) IN
          /\ usage_data' = [usage_data EXCEPT ![s] = u2]
          /\ user_api_calls' = [user_api_calls EXCEPT ![s] = ResetCalls(u, @)]
          /\ file' = ResetFile(u)
          /\ result' = Outcome("stats", s,
                          IF HasKey(u2, "total_calls") THEN "ok" ELSE "raised")
          /\ rolled' = [rolled EXCEPT ![s] = @ \/ ResetNeeded(u)]
          /\ carried' = [carried EXCEPT ![s] = @ /\ ~ResetNeeded(u)]
  /\ pending' = [pending EXCEPT ![s] = NoDay]
  /\ UNCHANGED <<now, readable, writable, constructed, recorded>>

\* datetime.now() advances: to the afternoon, or past midnight
Tick ==
  /\ IF now.pm
     THEN /\ now.day < MaxDay
          /\ now' = [day |-> now.day + 1, pm |-> FALSE]
          /\ recorded' = 0
          /\ rolled' = [s \in Sessions |-> FALSE]
          /\ carried' = [s \in Sessions |-> user_api_calls[s] > 0]
     ELSE /\ now' = [now EXCEPT !.pm = TRUE]
          /\ UNCHANGED <<recorded, rolled, carried>>
  /\ result' = Outcome("tick", "-", "ok")
  /\ UNCHANGED <<file, readable, writable, constructed, usage_data,
                 user_api_calls, pending>>

\* The storage file is removed or overwritten from outside the limiter.
Tamper ==
  /\ \E f \in FileContents : f # file /\ file' = f
  /\ result' = Outcome("tamper", "-", "ok")
  /\ UNCHANGED <<now, readable, writable, constructed, usage_data,
                 user_api_calls, pending, recorded, rolled, carried>>

\* The permissions of the storage path change.
SetPermissions ==
  /\ \E r \in BOOLEAN, w \in BOOLEAN :
       /\ <<r, w>> # <<readable, writable>>
       /\ readable' = r
       /\ writable' = w
  /\ result' = Outcome("chmod", "-", "ok")
  /\ UNCHANGED <<now, file, constructed, usage_data, user_api_calls,
                 pending, recorded, rolled, carried>>

\* ------------------------------------------------- APICredentialsManager
Services == {"aws", "openai"}
EnvNames == {"OPENAI_API_KEY", "AWS_ACCESS_KEY_ID", "AWS_SECRET_ACCESS_KEY",
             "AWS_REGION", "HUGGINGFACE_TOKEN"}

\* os.getenv(name) of a variable that is not set
NoneVal == "<None>"
Getenv(n) == environ[n]
GetenvOr(n, default) == IF environ[n] = NoneVal THEN default ELSE environ[n]

\* the values get_credentials reads from st.session_state.user_credentials
OwnKeys(service) ==
  IF service = "aws" THEN {"access_key_id", "secret_key", "region"} ELSE {"api_key"}
OwnRaises(service) == ~(OwnKeys(service) \subseteq DOMAIN user_credentials[service])
OwnCredentials(service) ==
  IF service = "aws"
  THEN [aws_access_key_id |-> user_credentials["aws"]["access_key_id"],
        aws_secret_access_key |-> user_credentials["aws"]["secret_key"],
        region_name |-> user_credentials["aws"]["region"]]
  ELSE [api_key |-> user_credentials["openai"]["api_key"]]

\* the default credentials, from the environment
DefaultCredentials(service) ==
  IF service = "aws"
  THEN [aws_access_key_id |-> Getenv("AWS_ACCESS_KEY_ID"),
        aws_secret_access_key |-> Getenv("AWS_SECRET_ACCESS_KEY"),
        region_name |-> GetenvOr("AWS_REGION", "eu-west-1")]
  ELSE IF service = "openai"
  THEN [api_key |-> Getenv("OPENAI_API_KEY")]
  ELSE EmptyDict

\* using_own_credentials.get(service)
IsUsingOwnCredentials(service) ==
  service \in DOMAIN using_own_credentials /\ using_own_credentials[service]

\* a clear that leaves the using-own flag set
ClearedFlagsKept(service) == using_own_credentials

\* a clear that empties the credentials of every service
ClearedCredentialsAll(service) == [s \in Services |-> EmptyDict]

\* clear_service_credentials
ClearedFlags(service) == [using_own_credentials EXCEPT ![service] = FALSE]
ClearedCredentials(service) == [user_credentials EXCEPT ![service] = EmptyDict]

NoFlags == [s \in Services |-> FALSE]
NoCredentials == [s \in Services |-> EmptyDict]

Returned(op, service, creds, own, raised) ==
  [op |-> op, service |-> service, creds |-> creds, own |-> own, raised |-> raised]

CredentialsInit ==
  /\ using_own_credentials = NoFlags
  /\ user_credentials = NoCredentials
  /\ cred_ret = Returned("init", "-", EmptyDict, FALSE, FALSE)
  /\ cred_prev = Returned("init", "-", EmptyDict, FALSE, FALSE)

\* clear_credentials
ClearCredentials ==
  /\ using_own_credentials' = NoFlags
  /\ user_credentials' = NoCredentials
  /\ cred_ret' = Returned("clear", "-", EmptyDict, FALSE, FALSE)
  /\ cred_prev' = cred_ret

\* clear_service_credentials(service)
ClearServiceCredentials(service) ==
  /\ using_own_credentials' = ClearedFlags(service)
  /\ user_credentials' = ClearedCredentials(service)
  /\ cred_ret' = Returned("clear_service", service, EmptyDict, FALSE, FALSE)
  /\ cred_prev' = cred_ret

\* credentials_ui: the OpenAI settings, then the AWS settings
OpenAIFlags(flags, use_own, key) ==
  IF use_own THEN [flags EXCEPT !["openai"] = (key # "")] ELSE flags
OpenAICredentials(creds, use_own, key) ==
  IF use_own /\ key # ""
  THEN [creds EXCEPT !["openai"] = [api_key |-> key]] ELSE creds
AWSFlags(flags, use_own, ak, sk) ==
  IF use_own THEN [flags EXCEPT !["aws"] = (ak # "" /\ sk # "")] ELSE flags
AWSCredentials(creds, use_own, ak, sk, region) ==
  IF use_own /\ ak # "" /\ sk # ""
  THEN [creds EXCEPT !["aws"] =
          [access_key_id |-> ak, secret_key |-> sk, region |-> region]]
  ELSE creds

\* credentials_ui: one run of the sidebar form with the widgets' values
CredentialsUI ==
  \E clear \in BOOLEAN, use_openai \in BOOLEAN, use_aws \in BOOLEAN,
     key \in {"", "k1"}, ak \in {"", "a1"}, sk \in {"", "s1"},
     region \in {"eu-west-1", "us-east-1"} :
    /\ IF clear
       THEN /\ using_own_credentials' = NoFlags
            /\ user_credentials' = NoCredentials
       ELSE /\ using_own_credentials' =
                 AWSFlags(OpenAIFlags(using_own_credentials, use_openai, key),
                          use_aws, ak, sk)
            /\ user_credentials' =
                 AWSCredentials(OpenAICredentials(user_credentials, use_openai, key),
                                use_aws, ak, sk, region)
    /\ cred_ret' = Returned("ui", "-", EmptyDict, FALSE, FALSE)
    /\ cred_prev' = cred_ret

\* get_credentials(service)
GetCredentials(service) ==
  /\ IF IsUsingOwnCredentials(service)
     THEN IF OwnRaises(service)
          THEN /\ cred_ret' = Returned("get", service, EmptyDict, TRUE, TRUE)
               /\ UNCHANGED <<using_own_credentials, user_credentials>>
          ELSE /\ cred_ret' = Returned("get", service, OwnCredentials(service), TRUE, FALSE)
               /\ using_own_credentials' = ClearedFlags(service)
               /\ user_credentials' = ClearedCredentials(service)
     ELSE /\ cred_ret' = Returned("get", service, DefaultCredentials(service), FALSE, FALSE)
          /\ UNCHANGED <<using_own_credentials, user_credentials>>
  /\ cred_prev' = cred_ret

\* ------------------------------------------------------ load_credentials
\* possible_paths, in the order they are tried
PossiblePaths == 1..4
NoPaths == [p \in PossiblePaths |-> "absent"]
DotenvKeys(content) ==
  IF content = "full" THEN EnvNames
  ELSE IF content = "partial" THEN EnvNames \ {"HUGGINGFACE_TOKEN"}
  ELSE {}

\* the first of possible_paths that exists, 0 when none does
FirstEnvPath ==
  IF \E p \in PossiblePaths : dotenv_files[p] # "absent"
  THEN CHOOSE p \in PossiblePaths :
         /\ dotenv_files[p] # "absent"
         /\ \A q \in PossiblePaths : q < p => dotenv_files[q] = "absent"
  ELSE 0

\* load_dotenv(path): sets the variables that are not set yet
LoadDotenv(env, content) ==
  [n \in EnvNames |->
     IF env[n] = NoneVal /\ n \in DotenvKeys(content) THEN "dotenv" ELSE env[n]]

\* the order in which the secrets are copied into os.environ
SecretOrder == <<"OPENAI_API_KEY", "AWS_ACCESS_KEY_ID", "AWS_SECRET_ACCESS_KEY",
                 "AWS_REGION", "HUGGINGFACE_TOKEN">>
SecretKeys ==
  IF secrets = "full" THEN EnvNames
  ELSE IF secrets = "partial" THEN EnvNames \ {"HUGGINGFACE_TOKEN"}
  ELSE {}

\* the secrets copied before the first KeyError, if any
SecretsWritten ==
  {SecretOrder[i] : i \in {j \in 1..Len(SecretOrder) :
                             \A k \in 1..j : SecretOrder[k] \in SecretKeys}}
LoadSecrets(env) ==
  [n \in EnvNames |-> IF n \in SecretsWritten THEN "secret" ELSE env[n]]

\* check_credentials: the required credentials os.getenv gives no value for
MissingCredentials(env) == {n \in EnvNames : env[n] = NoneVal}

Loaded(op, noop, looked, wrote, validated, stopped, after) ==
  [op |-> op, noop |-> noop, looked |-> looked, wrote |-> wrote,
   validated |-> validated, stopped |-> stopped, after_success |-> after]

LoaderInit(paths, secretStates) ==
  /\ credentials_loaded = FALSE
  /\ dotenv_files \in paths
  /\ secrets \in secretStates
  /\ load_ret = Loaded("init", TRUE, FALSE, {}, FALSE, FALSE, FALSE)
  /\ loaded_once = FALSE

\* load_credentials
LoadCredentials ==
  /\ IF credentials_loaded
     THEN /\ load_ret' = Loaded("load", TRUE, FALSE, {}, FALSE, FALSE, loaded_once)
          /\ loaded_once' = TRUE
          /\ UNCHANGED environ
     ELSE IF FirstEnvPath # 0
     THEN /\ environ' = LoadDotenv(environ, dotenv_files[FirstEnvPath])
          /\ load_ret' = Loaded("load", FALSE, TRUE, {}, FALSE, FALSE, loaded_once)
          /\ loaded_once' = TRUE
     ELSE LET env2 == LoadSecrets(environ)
              stop == MissingCredentials(env2) # {}
          IN /\ environ' = env2
             /\ load_ret' = Loaded("load", FALSE, TRUE, SecretsWritten, TRUE, stop,
                                   loaded_once)
             /\ loaded_once' = (loaded_once \/ ~stop)
  /\ UNCHANGED <<credentials_loaded, dotenv_files, secrets>>

\* check_credentials
CheckCredentials ==
  /\ load_ret' = Loaded("check_credentials", FALSE, FALSE, {}, TRUE,
                        MissingCredentials(environ) # {}, loaded_once)
  /\ UNCHANGED <<environ, credentials_loaded, dotenv_files, secrets, loaded_once>>

\* ------------------------------------------------------- specifications
LimiterInit(files) ==
  /\ now = [day |-> 1, pm |-> FALSE]
  /\ file \in files
  /\ readable = TRUE
  /\ writable = TRUE
  /\ constructed = [s \in Sessions |-> FALSE]
  /\ usage_data = [s \in Sessions |-> EmptyDict]
  /\ user_api_calls = [s \in Sessions |-> NoKey]
  /\ result = Outcome("init", "-", "ok")
  /\ pending = [s \in Sessions |-> NoDay]
  /\ accepted = [d \in Days |-> 0]
  /\ recorded = 0
  /\ rolled = [s \in Sessions |-> FALSE]
  /\ carried = [s \in Sessions |-> FALSE]

\* The file of a first start, or the record a run of an earlier day left.
InitialFiles == {Missing} \cup {Json(Record(0, n)) : n \in 0..1}

Init ==
  /\ LimiterInit(InitialFiles)
  /\ CredentialsInit
  /\ environ = [n \in EnvNames |-> "env"]
  /\ LoaderInit({NoPaths}, {"nofile"})

\* what a limiter call of the free or the storage specification leaves alone
Others == UNCHANGED <<accepted, credVars, environ, loaderVars>>
\* what a limiter call under serialized access leaves alone
OthersSerial == UNCHANGED <<credVars, environ, loaderVars>>

\* Sessions call into their limiters in any order; the storage works.
Next ==
  \/ \E s \in Sessions : Construct(s) /\ Others
  \/ \E s \in Sessions : CheckLimits(s) /\ Others
  \/ \E s \in Sessions : IncrementUsage(s) /\ Others
  \/ \E s \in Sessions : DisplayUsageStats(s) /\ Others
  \/ Tick /\ Others

Spec == Init /\ [][Next]_vars

\* s's record is the one a load of the storage file would give now
UpToDate(s) ==
  /\ constructed[s]
  /\ file.st = "json" => usage_data[s] = file.data

\* the call s records was allowed by s's last check
Accept(s) == accepted' = [accepted EXCEPT ![pending[s]] = @ + 1]

\* Serialized access: a session calls into its limiter only while its
\* record is the stored one, and records a call only right after a check
\* that allowed it.
NextSerial ==
  \/ \E s \in Sessions : Construct(s) /\ Others
  \/ \E s \in Sessions : UpToDate(s) /\ CheckLimits(s) /\ Others
  \/ \E s \in Sessions :
       UpToDate(s) /\ pending[s] # NoDay /\ IncrementUsage(s) /\ Accept(s) /\ OthersSerial
  \/ \E s \in Sessions : UpToDate(s) /\ DisplayUsageStats(s) /\ Others
  \/ Tick /\ Others

SpecSerial == Init /\ [][NextSerial]_vars

\* Sessions that record a call only right after a check that allowed it,
\* but call into their limiters in any order: nothing keeps a limiter's
\* record equal to the stored one.
NextRace ==
  \/ \E s \in Sessions : Construct(s) /\ Others
  \/ \E s \in Sessions : CheckLimits(s) /\ Others
  \/ \E s \in Sessions :
       pending[s] # NoDay /\ IncrementUsage(s) /\ Accept(s) /\ OthersSerial
  \/ \E s \in Sessions : DisplayUsageStats(s) /\ Others
  \/ Tick /\ Others

SpecRace == Init /\ [][NextRace]_vars

\* One session and a storage file that fails: removed, overwritten with
\* content that is no usage record, or made unreadable or unwritable.
NextStorage ==
  \/ Construct("A") /\ Others
  \/ CheckLimits("A") /\ Others
  \/ IncrementUsage("A") /\ Others
  \/ DisplayUsageStats("A") /\ Others
  \/ Tick /\ Others
  \/ Tamper /\ Others
  \/ SetPermissions /\ Others

SpecStorage == Init /\ [][NextStorage]_vars

LimiterIdle == UNCHANGED limiterVars

\* the environment with exactly the variables of `set` set
Environment(set) == [n \in EnvNames |-> IF n \in set THEN "env" ELSE NoneVal]

\* The credentials manager of one session.
InitCredentials ==
  /\ LimiterInit({Missing})
  /\ CredentialsInit
  /\ environ \in {Environment(EnvNames), Environment({}),
                  Environment(EnvNames \ {"AWS_REGION"}),
                  Environment({"OPENAI_API_KEY"})}
  /\ LoaderInit({NoPaths}, {"nofile"})

CredentialsFrame == LimiterIdle /\ UNCHANGED <<environ, loaderVars>>

NextCredentials ==
  \/ CredentialsUI /\ CredentialsFrame
  \/ ClearCredentials /\ CredentialsFrame
  \/ \E service \in Services : ClearServiceCredentials(service) /\ CredentialsFrame
  \/ \E service \in Services \cup {"other"} : GetCredentials(service) /\ CredentialsFrame

SpecCredentials == InitCredentials /\ [][NextCredentials]_vars

\* The credential loader of one session.
InitLoader ==
  /\ LimiterInit({Missing})
  /\ CredentialsInit
  /\ environ \in [EnvNames -> {NoneVal, "env"}]
  /\ LoaderInit([PossiblePaths -> {"absent", "full"}] \cup
                  {[NoPaths EXCEPT ![p] = "partial"] : p \in PossiblePaths},
                {"nofile", "empty", "full", "partial"})

LoaderFrame == LimiterIdle /\ UNCHANGED credVars

NextLoader ==
  \/ LoadCredentials /\ LoaderFrame
  \/ CheckCredentials /\ LoaderFrame

SpecLoader == InitLoader /\ [][NextLoader]_vars

\* ---------------------------------------------------------------- claims
NotAllowed == {"user_limit", "total_limit"}
LastCheck == result.op = "check"
LastCalls == user_api_calls[result.s]
LastRecord == usage_data[result.s]

\* C1: under serialized access by sessions that record a call only after
\* an allowing check, the calls accepted on one day never exceed the total
\* daily limit, and once they reach it a check of a session that is under
\* its own limit is refused with the total-limit message.
C1_GlobalLimit ==
  /\ \A d \in Days : accepted[d] <= daily_total_limit
  /\ (LastCheck /\ LastCalls < daily_user_limit
        /\ accepted[today] >= daily_total_limit)
       => result.out = "total_limit"

\* two sessions reached the total limit together; the second, with one call
\* of its own, is refused by the total limit
C1_Witness ==
  /\ result = Outcome("check", "B", "total_limit")
  /\ accepted[today] = daily_total_limit
  /\ user_api_calls["A"] = daily_user_limit
  /\ user_api_calls["B"] > 0
  /\ user_api_calls["B"] < daily_user_limit

\* C2: a check evaluated with the session counter at or above the user
\* limit is refused with the user-limit message, whatever total_calls is.
C2_UserLimitFirst ==
  (LastCheck /\ LastCalls >= daily_user_limit) => result.out = "user_limit"

\* both limits are reached and the user-limit message is the one reported
C2_Witness ==
  /\ LastCheck
  /\ LastCalls >= daily_user_limit
  /\ LastRecord.total_calls >= daily_total_limit
  /\ result.out = "user_limit"

\* C3: a check evaluated with the session counter below the user limit is
\* refused with the total-limit message when total_calls is at or above
\* the total limit, and allowed when total_calls is below it.
C3_TotalLimit ==
  (LastCheck /\ LastCalls < daily_user_limit)
    => /\ LastRecord.total_calls >= daily_total_limit => result.out = "total_limit"
       /\ LastRecord.total_calls < daily_total_limit => result.out = "allowed"

C3_Witness ==
  /\ LastCheck
  /\ LastCalls < daily_user_limit
  /\ LastRecord.total_calls = daily_total_limit
  /\ result.out = "total_limit"

\* C4: under serialized access, after N Record calls made today on today's
\* record the stored total_calls is N, and within a day the stored
\* total_calls never decreases.
StoredToday == file.st = "json" /\ HasKey(file.data, "date") /\ file.data.date = today
C4_NoLostRecord ==
  /\ [](recorded > 0 => file = Json(Record(today, recorded)))
  /\ [][(StoredToday /\ now'.day = now.day)
          => (StoredToday' /\ file'.data.total_calls >= file.data.total_calls)]_vars

\* both sessions recorded calls today and the file holds every one of them
C4_Witness ==
  /\ recorded = daily_total_limit
  /\ user_api_calls["A"] > 0
  /\ user_api_calls["B"] > 0
  /\ file = Json(Record(today, daily_total_limit))

\* C5: once a limiter has performed today's rollover, a further check or
\* stats call of that limiter on the same day resets nothing: its record,
\* the session counter and the file keep their values.
C5_RolloverIdempotent ==
  [][\A s \in Sessions :
       (rolled[s] /\ result'.op \in {"check", "stats"} /\ result'.s = s)
         => /\ usage_data'[s] = usage_data[s]
            /\ user_api_calls'[s] = user_api_calls[s]
            /\ file' = file]_vars

\* a check or stats call after the rollover and a recorded call
C5_Witness ==
  \E s \in Sessions :
    /\ rolled[s]
    /\ result.op \in {"check", "stats"}
    /\ result.s = s
    /\ user_api_calls[s] > 0
    /\ usage_data[s].total_calls > 0

\* C9: a check that is refused changes neither the limiter's record, nor
\* the file, nor the session counter.
C9_RefusedCheckNoEffect ==
  [][(result'.op = "check" /\ result'.out \in NotAllowed)
       => /\ usage_data' = usage_data
          /\ file' = file
          /\ user_api_calls' = user_api_calls]_vars

\* a refused check on the second day, after that day's rollover
C9_Witness ==
  /\ LastCheck
  /\ result.out \in NotAllowed
  /\ today = MaxDay
  /\ LastRecord.date = today

\* the file holds no usage record of a day with a non-negative count
StorageUnusable ==
  \/ file.st \in {"missing", "garbage"}
  \/ ~readable
  \/ file.data \in MalformedDicts

\* C6: constructing the limiter on a storage file that is missing,
\* unreadable or holds no usable usage record does not raise and gives the
\* fresh record of today with zero calls.
C6_UnusableFileLoadsFresh ==
  (result.op = "construct" /\ StorageUnusable)
    => (result.out # "raised" /\ LastRecord = FreshRecord)

\* C7: whatever the state of the storage file, check_limits returns a
\* boolean and increment_usage completes: neither raises.
C7_StorageErrorsContained ==
  result.op \in {"check", "record"} => result.out # "raised"

\* C8: after get_credentials(service) has returned the caller's own
\* credentials, the caller's values and the using-own flag of the service
\* are cleared, and a get_credentials(service) right after it returns the
\* default credentials of the environment.
C8_OneShotCredentials ==
  /\ (cred_ret.op = "get" /\ cred_ret.own)
       => /\ ~cred_ret.raised
          /\ ~IsUsingOwnCredentials(cred_ret.service)
          /\ user_credentials[cred_ret.service] = EmptyDict
  /\ (cred_ret.op = "get" /\ cred_prev.op = "get" /\ cred_prev.own
        /\ cred_ret.service = cred_prev.service)
       => /\ ~cred_ret.own
          /\ cred_ret.creds = DefaultCredentials(cred_ret.service)

\* two calls for one service in a row: the caller's key, then the default
C8_Witness ==
  /\ cred_prev.op = "get"
  /\ cred_prev.own
  /\ cred_ret.op = "get"
  /\ cred_ret.service = cred_prev.service
  /\ cred_ret.creds # cred_prev.creds
  /\ \E other \in Services : IsUsingOwnCredentials(other)

\* C10: once a load_credentials call of the session has returned, a later
\* call does nothing: no .env lookup, no write to os.environ, no
\* validation, no stop.
C10_LoadOnce ==
  (load_ret.op = "load" /\ load_ret.after_success)
    => /\ ~load_ret.looked
       /\ load_ret.wrote = {}
       /\ ~load_ret.validated
       /\ ~load_ret.stopped

\* C11: after a construction, check_limits, display_usage_stats or
\* increment_usage that completed, the limiter's record is dated today; in
\* particular no increment_usage adds to a record of another day.
C11_RecordDatedToday ==
  (result.op \in {"construct", "check", "stats", "record"}
     /\ result.out # "raised")
    => LastRecord.date = today

\* C12: a check_limits is never evaluated with a session counter that still
\* holds calls of an earlier day, whichever limiter rolled the stored
\* record over.
C12_CounterResetOnNewDay ==
  (LastCheck /\ result.out # "raised") => ~carried[result.s]

\* C13 as stated: every session's counter is at most the total of its
\* limiter's record, in every state.
C13_CounterWithinTotal ==
  \A s \in Sessions :
    (constructed[s] /\ HasKey(usage_data[s], "total_calls"))
      => user_api_calls[s] <= usage_data[s].total_calls

\* C13: check_limits, display_usage_stats and increment_usage of one limiter
\* keep the session counter at most the total of the limiter's record when
\* it was so before the call; only loading the record at construction can
\* put the total below the counter.
C13_CallsKeepCounterWithinTotal ==
  [][\A s \in Sessions :
       (/\ result'.op \in {"check", "stats", "record"}
        /\ result'.s = s
        /\ result'.out # "raised"
        /\ HasKey(usage_data[s], "total_calls")
        /\ user_api_calls[s] <= usage_data[s].total_calls)
         => user_api_calls'[s] <= usage_data'[s].total_calls]_vars

\* a call recorded while the file could not be written: counter and total
\* of the limiter moved together
C13_Witness ==
  /\ result.op = "record"
  /\ result.out = "ok"
  /\ ~writable
  /\ LastCalls > 1
  /\ LastCalls = LastRecord.total_calls

\* C14: a save that fails reaches no caller and loses nothing the limiter
\* holds: a Record on a record with a count completes and adds exactly one
\* call to the limiter's record whether or not the file could be written, a
\* rollover gives the fresh record whether or not it could be written, a
\* failed save leaves the file as it was, and a save that succeeds stores
\* the limiter's whole record, the calls whose own save failed included.
C14_SaveFailsSoft ==
  [][\A s \in Sessions :
       LET u == usage_data[s] IN
       /\ (result'.op = "record" /\ result'.s = s /\ HasKey(u, "total_calls"))
            => /\ result'.out = "ok"
               /\ usage_data'[s] = [u EXCEPT !.total_calls = @ + 1]
               /\ file' = IF writable THEN Json(usage_data'[s]) ELSE file
       /\ (result'.op \in {"check", "stats"} /\ result'.s = s
             /\ HasKey(u, "date") /\ u.date # today)
            => /\ usage_data'[s] = FreshRecord
               /\ file' = IF writable THEN Json(FreshRecord) ELSE file]_vars

\* after today's rollover was saved, two calls were recorded while the file
\* could not be written: the limiter's record holds both, the file neither
C14_Witness ==
  /\ result = Outcome("record", "A", "ok")
  /\ ~writable
  /\ LastRecord = Record(today, 2)
  /\ file = Json(FreshRecord)

\* the states of a usage record: Fresh, Accumulating, Exhausted
RecordState(u) ==
  IF u.total_calls >= daily_total_limit THEN 2
  ELSE IF u.total_calls > 0 THEN 1
  ELSE 0

\* C15: whatever state a limiter's record is in, once its date is not
\* today's the limiter's next check_limits or display_usage_stats makes it
\* the fresh record of today and stores that; while its date is today
\* those calls leave it alone, and a Record adds one call to it, so its
\* state only moves from Fresh to Accumulating to Exhausted.
C15_NoTerminalState ==
  [][\A s \in Sessions :
       LET u == usage_data[s]
           v == usage_data'[s]
       IN /\ (result'.op \in {"check", "stats"} /\ result'.s = s)
               => IF u.date # today
                  THEN v = FreshRecord /\ file' = Json(FreshRecord)
                  ELSE v = u
          /\ (result'.op = "record" /\ result'.s = s)
               => /\ v = Record(u.date, u.total_calls + 1)
                  /\ RecordState(v) >= RecordState(u)
          /\ result'.op = "tick" => v = u]_vars

\* a rollover on the second day; yesterday's record, which the other
\* session's limiter still holds, was exhausted
C15_Witness ==
  /\ result.op \in {"check", "stats"}
  /\ rolled[result.s]
  /\ today = MaxDay
  /\ LastRecord = FreshRecord
  /\ file = Json(FreshRecord)
  /\ \E o \in Sessions \ {result.s} :
       /\ constructed[o]
       /\ usage_data[o].date = today - 1
       /\ RecordState(usage_data[o]) = 2

\* a Record call of today is missing from the stored count
LostUpdate == StoredToday /\ file.data.total_calls < recorded

\* C16: sessions that follow the protocol without serializing their calls
\* can lose updates and accept more calls than the total limit in a day.
\* What holds of every state: the stored count of today is never above the
\* number of Record calls made today, and more calls than the total limit
\* were accepted today only if a Record call is missing from the stored
\* count.
C16_StoredCountOnlyBehind ==
  /\ StoredToday => file.data.total_calls <= recorded
  /\ accepted[today] > daily_total_limit => LostUpdate

\* the stored count is behind the Record calls of today and more calls
\* than the total limit were accepted today
C16_Witness ==
  /\ LostUpdate
  /\ accepted[today] > daily_total_limit
  /\ result.op = "record"

\* C17: every increment_usage adds exactly one to the session counter and
\* exactly one to total_calls of the limiter's record and stores that
\* record, whatever the counter, the total and the record's date are: the
\* limits are not validated and the date is not rolled over.
C17_IncrementUnconditional ==
  [][\A s \in Sessions :
       (result'.op = "record" /\ result'.s = s)
         => /\ result'.out = "ok"
            /\ user_api_calls'[s] = user_api_calls[s] + 1
            /\ usage_data'[s] =
                 Record(usage_data[s].date, usage_data[s].total_calls + 1)
            /\ file' = Json(usage_data'[s])]_vars

\* a Record made with both limits already reached, on a record of an
\* earlier day
C17_Witness ==
  /\ result.op = "record"
  /\ LastCalls > daily_user_limit
  /\ LastRecord.total_calls > daily_total_limit
  /\ LastRecord.date # today
  /\ file = Json(LastRecord)

\* display_usage_stats: the progress value c / daily_user_limit lies in
\* [0, 1]
ProgressInUnit(c) == 0 <= c /\ c <= daily_user_limit

\* C18: when every Record of a session comes right after a check_limits of
\* that session that allowed the call, the session counter never exceeds
\* the user limit, so the progress value shown by display_usage_stats lies
\* in [0, 1].
C18_UserBound ==
  \A s \in Sessions : constructed[s] => ProgressInUnit(user_api_calls[s])

\* display_usage_stats shows a session that has used its whole allowance
C18_Witness ==
  /\ result.op = "stats"
  /\ result.out = "ok"
  /\ LastCalls = daily_user_limit
  /\ accepted[today] >= daily_user_limit

\* C19: get_credentials(service) and clear_service_credentials(service)
\* leave the using-own flag and the caller's credentials of every other
\* service as they were, and a get_credentials on a service that is not
\* using the caller's credentials changes no session state and no
\* environment variable.
C19_OtherServiceUntouched ==
  [][cred_ret'.op \in {"get", "clear_service"}
       => /\ \A other \in Services \ {cred_ret'.service} :
               /\ using_own_credentials'[other] = using_own_credentials[other]
               /\ user_credentials'[other] = user_credentials[other]
          /\ (cred_ret'.op = "get" /\ ~cred_ret'.own)
               => UNCHANGED <<using_own_credentials, user_credentials,
                              environ>>]_vars

\* the caller's AWS credentials were consumed while the caller's OpenAI key
\* stays in place
C19_Witness ==
  /\ cred_ret.op = "get"
  /\ cred_ret.service = "aws"
  /\ cred_ret.own
  /\ ~cred_ret.raised
  /\ user_credentials["aws"] = EmptyDict
  /\ using_own_credentials["openai"]
  /\ user_credentials["openai"] = [api_key |-> "k1"]

====
